---- MODULE Spec2Model ----
(***************************************************************************)
(* Model of scrape.py, the LDLC smartphone price tracker.                  *)
(*                                                                         *)
(*  - SpecPrice  : extract_main_price_from_text applied to bounded texts.  *)
(*  - SpecPromo  : the same, applied to texts made of whole amounts.       *)
(*  - SpecMerge  : update_excel_history applied to a persisted ledger.     *)
(*  - SpecScrape : one launch of run_once over two listing pages.          *)
(*  - Spec       : run_once launched again and again over one page.        *)
(*                                                                         *)
(* Amounts are integers counted in cents (the source computes              *)
(* euros + cents / 100.0).  None is the Python None / a missing cell.      *)
(***************************************************************************)
EXTENDS Integers, Sequences, FiniteSets, TLC

VARIABLES
    text,        \* argument of extract_main_price_from_text
    extracted,   \* TRUE once extract_main_price_from_text has returned
    price,       \* value returned by extract_main_price_from_text
    excel,       \* EXCEL_FILE: the persisted ledger
    clock,       \* the wall clock read by time.strftime
    last_rows,   \* the batch handed to the latest update_excel_history
    op,          \* the latest step taken
    found_status, \* status of the file the latest update_excel_history found
    state_file,  \* STATE_FILE: the persisted monitoring state
    pc,          \* where the running process stands: "idle" when none runs
    state,       \* run_once: the dict returned by load_state
    page,        \* scrape_all_pages: position in PAGES_LISTE
    link,        \* scrape_listing_page: links of the page iterated so far
    fallback_budget, \* scrape_all_pages: fallback_budget["remaining"]
    page_rows,   \* scrape_listing_page: rows, page_rows to its caller
    seen_refs,   \* scrape_listing_page: seen_refs
    all_rows,    \* scrape_all_pages: all_rows
    seen,        \* scrape_all_pages: seen
    item,        \* scrape_listing_page: the latest product handled
    fetches,     \* calls of get_price_from_product_page in this run
    fetched,     \* references whose product page this run has fetched
    unresolved,  \* products of this run whose listing gave no price
    history      \* how each finished run ended

priceVars == <<text, extracted, price>>

mergeVars == <<excel, clock, last_rows, op, found_status>>

runVars == <<state_file, pc, state, page, link, fallback_budget, page_rows,
             seen_refs, all_rows, seen, item, fetches, fetched, unresolved, history>>

vars == <<text, extracted, price, excel, clock, last_rows, op, found_status,
          state_file, pc, state, page, link, fallback_budget, page_rows,
          seen_refs, all_rows, seen, item, fetches, fetched, unresolved, history>>

(***************************************************************************)
(* Bounds                                                                  *)
(***************************************************************************)
\* longest text handed to extract_main_price_from_text
MaxLen == 6

\* most fragments a price text of SpecPromo is made of
MaxTokens == 4

\* latest clock value at which update_excel_history is called in SpecMerge
MaxTime == 3

\* launches of run_once in Spec
MaxRuns == 5

\* product links iterated on one listing page
MaxLinks == 2

\* MAX_FALLBACK_PRODUCT_PAGES is 80 at line 79; the model runs with a
\* budget small enough for a run to exhaust it
MAX_FALLBACK_PRODUCT_PAGES == 2

MAX_EMPTY_RUNS == 3

(***************************************************************************)
(* Values                                                                  *)
(***************************************************************************)
\* Python None, NaN, an empty spreadsheet cell
None == -1

\* characters of a text: two digits, a blank, a no-break space (\xa0),
\* the currency marker and a letter
EURO == "EUR"
NBSP == "nbsp"
Digits == {"5", "0"}
Alphabet == Digits \cup {" ", NBSP, EURO, "x"}

IsSpace(c) == c = " "

IsDigit(c) == c \in Digits

DigitVal(c) == IF c = "5" THEN 5 ELSE 0

Texts == UNION {[1..n -> Alphabet] : n \in 0..MaxLen}

(***************************************************************************)
(* _normalize_price_text                                                   *)
(***************************************************************************)
\* t.replace("\xa0", " ")
ReplaceNbsp(t) == [i \in 1..Len(t) |-> IF t[i] = NBSP THEN " " ELSE t[i]]

\* re.sub(r"\s+", " ", t): a run of blanks becomes one blank
RECURSIVE CollapseSpaces(_)
CollapseSpaces(t) ==
    IF Len(t) <= 1 THEN t
    ELSE IF IsSpace(t[1]) /\ IsSpace(t[2]) THEN CollapseSpaces(Tail(t))
    ELSE <<t[1]>> \o CollapseSpaces(Tail(t))

\* str.strip() of a text whose runs of blanks are already single blanks
Strip(t) ==
    LET a == IF Len(t) > 0 /\ IsSpace(t[1]) THEN 2 ELSE 1
        b == IF Len(t) > 0 /\ IsSpace(t[Len(t)]) THEN Len(t) - 1 ELSE Len(t)
    IN  IF a > b THEN <<>> ELSE SubSeq(t, a, b)

_normalize_price_text(t) == Strip(CollapseSpaces(ReplaceNbsp(t)))

(***************************************************************************)
(* The amount scanner: pattern.finditer over the normalized text.  The     *)
(* pattern is a digit, then digits and blanks (group 1), blanks, the       *)
(* currency marker, blanks, and optionally two digits (group 2).           *)
(***************************************************************************)
\* last index of the run of digits and blanks that starts at i
RECURSIVE RunEnd(_, _)
RunEnd(t, i) ==
    IF i < Len(t) /\ (IsDigit(t[i + 1]) \/ IsSpace(t[i + 1]))
    THEN RunEnd(t, i + 1) ELSE i

\* first index at or after k that holds no blank
RECURSIVE SkipSpaces(_, _)
SkipSpaces(t, k) ==
    IF k <= Len(t) /\ IsSpace(t[k]) THEN SkipSpaces(t, k + 1) ELSE k

\* int(s.replace(" ", "")) of a run of digits and blanks
RECURSIVE ParseInt(_, _)
ParseInt(s, acc) ==
    IF s = <<>> THEN acc
    ELSE IF IsSpace(s[1]) THEN ParseInt(Tail(s), acc)
    ELSE ParseInt(Tail(s), 10 * acc + DigitVal(s[1]))

\* whether a match starts at the digit t[i]: group 1 takes the whole run
\* of digits and blanks, and the marker must follow it
MatchesAt(t, i) ==
    LET j == RunEnd(t, i)
    IN  j + 1 <= Len(t) /\ t[j + 1] = EURO

\* the match that starts at the digit t[i]: the blanks after the marker
\* are consumed, and two digits, when present, are the cents (group 2)
MatchAt(t, i) ==
    LET j == RunEnd(t, i)
        k == SkipSpaces(t, j + 2)
        hasCents == k + 1 <= Len(t) /\ IsDigit(t[k]) /\ IsDigit(t[k + 1])
        euros == ParseInt(SubSeq(t, i, j), 0)
        cents == IF hasCents THEN 10 * DigitVal(t[k]) + DigitVal(t[k + 1]) ELSE 0
    IN  [start |-> i, stop |-> IF hasCents THEN k + 2 ELSE k,
         val |-> 100 * euros + cents]

\* the non-overlapping matches found from index i on, left to right
RECURSIVE FindIter(_, _)
FindIter(t, i) ==
    IF i > Len(t) THEN <<>>
    ELSE IF ~(IsDigit(t[i]) /\ MatchesAt(t, i)) THEN FindIter(t, i + 1)
    ELSE LET m == MatchAt(t, i)
         IN  <<m>> \o FindIter(t, m.stop)

(***************************************************************************)
(* extract_main_price_from_text                                            *)
(***************************************************************************)
BandMin == 50
BandMax == 10000

InBand(v) == 100 * BandMin <= v /\ v <= 100 * BandMax

\* the subsequence of the amounts that lie in the band
RECURSIVE Candidates(_)
Candidates(ms) ==
    IF ms = <<>> THEN <<>>
    ELSE IF InBand(ms[1]) THEN <<ms[1]>> \o Candidates(Tail(ms))
    ELSE Candidates(Tail(ms))

Amounts(t) ==
    LET found == FindIter(_normalize_price_text(t), 1)
    IN  [i \in 1..Len(found) |-> found[i].val]

\* the selection with the first candidate kept where the source keeps the
\* second
extract_main_price_from_text_First(t) ==
    IF t = <<>> THEN None
    ELSE LET matches == Amounts(t)
             candidates == Candidates(matches)
         IN  IF matches = <<>> THEN None
             ELSE IF candidates = <<>> THEN matches[1]
             ELSE candidates[1]

extract_main_price_from_text(t) ==
    IF t = <<>> THEN None
    ELSE LET matches == Amounts(t)
             candidates == Candidates(matches)
         IN  IF matches = <<>> THEN None
             ELSE IF candidates = <<>> THEN matches[1]
             ELSE IF Len(candidates) >= 2 THEN candidates[2]
             ELSE candidates[1]

(***************************************************************************)
(* Catalog values                                                          *)
(***************************************************************************)
\* product references, display names and prices, each in ascending order
Refs == <<"PB1", "PB2">>
Names == <<"Galaxy", "iPhone">>
Prices == <<10000>>

Range(s) == {s[i] : i \in 1..Len(s)}

\* position of v in the ascending sequence s
Rank(s, v) == CHOOSE i \in 1..Len(s) : s[i] = v

\* urljoin(BASE_URL, href): the pattern of line 364 ignores case, so one
\* reference can be listed under two spellings of its address; the first
\* reference is
Urls(ref) ==
    IF ref = Refs[1]
    THEN {"/fiche/" \o ref \o ".html", "/fiche/" \o ref \o ".HTML"}
    ELSE {"/fiche/" \o ref \o ".html"}

\* a missing cell of a text column (pd.NA)
NA == "NA"

(***************************************************************************)
(* The ledger file.  status is "absent", "ok" or "corrupt"; columns is the *)
(* header row; rows are the data rows, each a function on the columns.     *)
(***************************************************************************)
STRUCT_COLS == <<"reference", "nom", "url_produit">>

NoFile == [status |-> "absent", columns |-> <<>>, rows |-> <<>>]

CorruptFile == [status |-> "corrupt", columns |-> <<>>, rows |-> <<>>]

\* the creation of the file without the test of line 111
ensure_excel_exists_Overwrites(e) ==
    [status |-> "ok", columns |-> STRUCT_COLS, rows |-> <<>>]

ensure_excel_exists(e) ==
    IF e.status # "absent" THEN e
    ELSE [status |-> "ok", columns |-> STRUCT_COLS, rows |-> <<>>]

\* time.strftime("%Y-%m-%d %H:%M:%S") at clock value t
Strftime(t) == "T" \o ToString(t)

\* df.set_index("reference"): the frame's index, columns and cells
EmptyFrame == [index |-> <<>>, columns |-> <<>>, data |-> <<>>]

SetIndex(columns, rows) ==
    LET keep == SelectSeq(columns, LAMBDA c : c # "reference")
    IN  [index |-> [i \in 1..Len(rows) |-> rows[i]["reference"]],
         columns |-> keep,
         data |-> [i \in 1..Len(rows) |-> [c \in Range(keep) |-> rows[i][c]]]]

\* lines 478-486: the history as read back, an empty frame when the file
\* holds no row, lacks the reference column or cannot be read
ReadHistory(e) ==
    IF e.status = "ok" /\ e.rows # <<>> /\ "reference" \in Range(e.columns)
    THEN SetIndex(e.columns, e.rows)
    ELSE EmptyFrame

\* position of label r in index idx (labels are unique)
Loc(idx, r) == CHOOSE i \in 1..Len(idx) : idx[i] = r

\* the labels of set S in ascending order
RECURSIVE SortedRefs(_)
SortedRefs(S) ==
    IF S = {} THEN <<>>
    ELSE LET m == CHOOSE r \in S : \A q \in S : Rank(Refs, r) <= Rank(Refs, q)
         IN  <<m>> \o SortedRefs(S \ {m})

\* Index.union: sorted, except that an empty side or two equal indexes
\* give the other side, resp. the left side, as it stands
IndexUnion_RunOnly(a, b) == b

IndexUnion(a, b) ==
    IF a = <<>> THEN b
    ELSE IF b = <<>> \/ a = b THEN a
    ELSE SortedRefs(Range(a) \cup Range(b))

\* the columns of the merged frame: those of the history in their order,
\* then each structural column it lacks, then the timestamp if new
Append1(cols, c) == IF c \in Range(cols) THEN cols ELSE Append(cols, c)

MergedColumns_Duplicate(hist_columns, timestamp) ==
    Append(Append1(Append1(hist_columns, "nom"), "url_produit"), timestamp)

MergedColumns_NoStruct(hist_columns, timestamp) ==
    Append1(hist_columns, timestamp)

MergedColumns(hist_columns, timestamp) ==
    Append1(Append1(Append1(hist_columns, "nom"), "url_produit"), timestamp)

\* df_hist.reindex(idx): the cell of row r, column c, missing for a new row
HistCell(df_hist, r, c) ==
    IF r \in Range(df_hist.index) /\ c \in Range(df_hist.columns)
    THEN df_hist.data[Loc(df_hist.index, r)][c]
    ELSE IF c \in {"nom", "url_produit"} THEN NA ELSE None

\* the batch's row for reference r
RunRow(rows, r) == rows[CHOOSE i \in 1..Len(rows) : rows[i].reference = r]

InRun(rows, r) == \E i \in 1..Len(rows) : rows[i].reference = r

\* df_run[col].reindex(idx).combine_first(df_merged[col])
MetaCell_KeepsOld(df_hist, rows, r, c) ==
    IF HistCell(df_hist, r, c) # NA
    THEN HistCell(df_hist, r, c)
    ELSE RunRow(rows, r)[c]

MetaCell(df_hist, rows, r, c) ==
    IF InRun(rows, r) /\ RunRow(rows, r)[c] # NA
    THEN RunRow(rows, r)[c]
    ELSE HistCell(df_hist, r, c)

\* df_run[timestamp].reindex(idx)
TimestampCell_Filled(rows, r) ==
    IF InRun(rows, r) THEN RunRow(rows, r).prix_eur ELSE 0

TimestampCell(rows, r) ==
    IF InRun(rows, r) THEN RunRow(rows, r).prix_eur ELSE None

MergedCell(df_hist, rows, timestamp, r, c) ==
    IF c = timestamp THEN TimestampCell(rows, r)
    ELSE IF c \in {"nom", "url_produit"} THEN MetaCell(df_hist, rows, r, c)
    ELSE HistCell(df_hist, r, c)

\* sort_values(by=[timestamp, "nom"], na_position="last"): whether row a
\* comes strictly before row b
NameKey(n) == IF n = NA THEN Len(Names) + 1 ELSE Rank(Names, n)

RowBefore(a, b, timestamp) ==
    LET pa == a[timestamp]
        pb == b[timestamp]
    IN  \/ pa # None /\ pb = None
        \/ pa # None /\ pb # None /\ pa < pb
        \/ pa = pb /\ NameKey(a["nom"]) < NameKey(b["nom"])

\* stable insertion of row x into the sorted sequence s
RECURSIVE InsertRow(_, _, _)
InsertRow(s, x, timestamp) ==
    IF s = <<>> THEN <<x>>
    ELSE IF RowBefore(x, s[1], timestamp) THEN <<x>> \o s
    ELSE <<s[1]>> \o InsertRow(Tail(s), x, timestamp)

RECURSIVE SortValues(_, _)
SortValues(rows, timestamp) ==
    IF rows = <<>> THEN <<>>
    ELSE InsertRow(SortValues(SubSeq(rows, 1, Len(rows) - 1), timestamp),
                   rows[Len(rows)], timestamp)

(***************************************************************************)
(* update_excel_history(rows) at clock value t: the file it leaves         *)
(***************************************************************************)
update_excel_history(e, rows, t) ==
    LET e1 == ensure_excel_exists(e)
        timestamp == Strftime(t)
        run_index == [i \in 1..Len(rows) |-> rows[i].reference]
        df_hist == ReadHistory(e1)
        idx == IndexUnion(df_hist.index, run_index)
        columns == MergedColumns(df_hist.columns, timestamp)
        df_out == [i \in 1..Len(idx) |->
                     [c \in {"reference"} \cup Range(columns) |->
                        IF c = "reference" THEN idx[i]
                        ELSE MergedCell(df_hist, rows, timestamp, idx[i], c)]]
    IN  IF rows = <<>> THEN e1
        ELSE [status |-> "ok",
              columns |-> <<"reference">> \o columns,
              rows |-> SortValues(df_out, timestamp)]

(***************************************************************************)
(* scrape_all_pages, line 448: the batch is sorted by price, missing       *)
(* prices last, then by name.  The source's key for a missing price is     *)
(* 1e18; the model uses the largest key of its integer range.              *)
(***************************************************************************)
SortKey(v) == IF v = None THEN 2147483647 ELSE v

BatchBefore(a, b) ==
    \/ SortKey(a.prix_eur) < SortKey(b.prix_eur)
    \/ SortKey(a.prix_eur) = SortKey(b.prix_eur)
         /\ Rank(Names, a.nom) < Rank(Names, b.nom)

RECURSIVE InsertBatch(_, _)
InsertBatch(s, x) ==
    IF s = <<>> THEN <<x>>
    ELSE IF BatchBefore(x, s[1]) THEN <<x>> \o s
    ELSE <<s[1]>> \o InsertBatch(Tail(s), x)

RECURSIVE SortBatch(_)
SortBatch(rows) ==
    IF rows = <<>> THEN <<>>
    ELSE InsertBatch(SortBatch(SubSeq(rows, 1, Len(rows) - 1)), rows[Len(rows)])

\* the observations handed to update_excel_history for reference r: any
\* name, any address, a price or none
Observations(r) ==
    [reference : {r}, nom : Range(Names), url_produit : Urls(r),
     prix_eur : Range(Prices) \cup {None}]

\* the batches scrape_all_pages can return: at most one observation per
\* reference, in sorted order
Batches ==
    UNION {{SortBatch([i \in 1..Len(SortedRefs(S)) |-> f[SortedRefs(S)[i]]]) :
              f \in {g \in [S -> UNION {Observations(r) : r \in S}] :
                       \A r \in S : g[r].reference = r}} :
           S \in SUBSET Range(Refs)}

(***************************************************************************)
(* SpecPrice: one call of extract_main_price_from_text on any text         *)
(***************************************************************************)
PriceIdle ==
    /\ text = <<>>
    /\ extracted = TRUE
    /\ price = None

MergeIdle ==
    /\ excel = NoFile
    /\ clock = 1
    /\ last_rows = <<>>
    /\ op = "init"
    /\ found_status = "absent"

\* no state file yet, no process running
NoState == [exists |-> FALSE, empty_runs |-> 0]

NoItem == [reference |-> "", listing |-> None, fallback |-> "no", prix_eur |-> None]

Scratch ==
    /\ state = 0
    /\ page = 0
    /\ link = 0
    /\ fallback_budget = 0
    /\ page_rows = <<>>
    /\ seen_refs = {}
    /\ all_rows = <<>>
    /\ seen = {}
    /\ item = NoItem
    /\ fetches = 0
    /\ fetched = {}
    /\ unresolved = 0

RunIdle ==
    /\ state_file = NoState
    /\ pc = "idle"
    /\ history = <<>>
    /\ Scratch

PriceInit ==
    /\ text \in Texts
    /\ extracted = FALSE
    /\ price = None
    /\ MergeIdle
    /\ RunIdle

ExtractMainPrice ==
    /\ ~extracted
    /\ price' = extract_main_price_from_text(text)
    /\ extracted' = TRUE
    /\ UNCHANGED <<text, mergeVars, runVars>>

PriceNext == ExtractMainPrice

SpecPrice == PriceInit /\ [][PriceNext]_vars

(***************************************************************************)
(* SpecPromo: one call of extract_main_price_from_text on the text of a    *)
(* listing's .price element, line 394: its strings joined by blanks, each  *)
(* an amount with or without cents, or other wording                       *)
(***************************************************************************)
\* the fragments: "5 500€00", "550€50", "50€", "5€00", "50 000€", wording
\* and a blank
Tokens ==
    {<<"5", " ", "5", "0", "0", EURO, "0", "0">>,
     <<"5", "5", "0", EURO, "5", "0">>,
     <<"5", "0", EURO>>,
     <<"5", EURO, "0", "0">>,
     <<"5", "0", " ", "0", "0", "0", EURO>>,
     <<"x">>,
     <<" ">>}

RECURSIVE Concat(_)
Concat(ts) == IF ts = <<>> THEN <<>> ELSE ts[1] \o Concat(Tail(ts))

TokenTexts == {Concat(ts) : ts \in UNION {[1..n -> Tokens] : n \in 0..MaxTokens}}

PromoInit ==
    /\ text \in TokenTexts
    /\ extracted = FALSE
    /\ price = None
    /\ MergeIdle
    /\ RunIdle

SpecPromo == PromoInit /\ [][PriceNext]_vars

(***************************************************************************)
(* SpecMerge: update_excel_history called with any batch, under a clock    *)
(* that never runs backwards; the file may be lost or damaged in between   *)
(***************************************************************************)
MergeInit ==
    /\ PriceIdle
    /\ MergeIdle
    /\ RunIdle

UpdateExcelHistory ==
    \E rows \in Batches :
        /\ excel' = update_excel_history(excel, rows, clock)
        /\ last_rows' = rows
        /\ op' = IF op \in {"merge", "remerge"} /\ rows = last_rows
                 THEN "remerge" ELSE "merge"
        /\ found_status' = excel.status
        /\ UNCHANGED <<clock, priceVars, runVars>>

Tick ==
    /\ clock < MaxTime
    /\ clock' = clock + 1
    /\ op' = "tick"
    /\ UNCHANGED <<excel, last_rows, found_status, priceVars, runVars>>

\* the file is deleted between two runs
ExcelRemoved ==
    /\ excel.status = "ok"
    /\ excel' = NoFile
    /\ op' = "removed"
    /\ UNCHANGED <<clock, last_rows, found_status, priceVars, runVars>>

\* the file is damaged between two runs: read_excel raises
ExcelCorrupted ==
    /\ excel.status = "ok"
    /\ excel' = CorruptFile
    /\ op' = "corrupted"
    /\ UNCHANGED <<clock, last_rows, found_status, priceVars, runVars>>

MergeNext ==
    \/ UpdateExcelHistory
    \/ Tick
    \/ ExcelRemoved
    \/ ExcelCorrupted

SpecMerge == MergeInit /\ [][MergeNext]_vars

(***************************************************************************)
(* Spec: run_once, launched again and again.  A run scrapes the listing    *)
(* pages link by link, then updates the monitoring state and the ledger.   *)
(* Each launch reads a later clock value: a run sleeps                     *)
(* SLEEP_BETWEEN_PAGES_SEC after every page.                               *)
(***************************************************************************)
\* a load that starts every run from a fresh counter
load_state_Fresh(f) == 0

load_state(f) == IF f.exists THEN f.empty_runs ELSE 0

save_state(n) == [exists |-> TRUE, empty_runs |-> n]

\* line 535: the counter after a run without rows
EmptyRuns(n) == n + 1

\* line 548: the counter after a run with rows
Reset_Keeps(n) == n

ResetRuns(n) == 0

\* line 540: whether the saved counter makes the run raise
Trips_Late(n) == n > MAX_EMPTY_RUNS

\* the test of line 540 written with == where the source has >=
Trips_Exact(n) == n = MAX_EMPTY_RUNS

Trips(n) == n >= MAX_EMPTY_RUNS

\* what get_price_from_product_page can do: return a price, return None,
\* or raise
Lookups ==
    {[raised |-> FALSE, price |-> v] : v \in Range(Prices) \cup {None}}
      \cup {[raised |-> TRUE, price |-> None]}

NoLookup == [raised |-> FALSE, price |-> None]

\* lines 400-407: whether the fallback is attempted, the price it leaves
\* and the budget it leaves
FallbackAttempted_OffByOne(price_eur, remaining) ==
    price_eur = None /\ remaining >= 0

FallbackAttempted(price_eur, remaining) == price_eur = None /\ remaining > 0

\* the except clause setting a price of 0 where the source sets None
FallbackPrice_RaiseZero(price_eur, remaining, lookup) ==
    IF FallbackAttempted(price_eur, remaining)
    THEN (IF lookup.raised THEN 0 ELSE lookup.price)
    ELSE price_eur

FallbackPrice(price_eur, remaining, lookup) ==
    IF FallbackAttempted(price_eur, remaining)
    THEN (IF lookup.raised THEN None ELSE lookup.price)
    ELSE price_eur

\* the decrement sits in the finally clause: it does not look at the lookup
BudgetAfter_NoFinally(price_eur, remaining, lookup) ==
    IF price_eur = None /\ remaining > 0 /\ ~lookup.raised
    THEN remaining - 1 ELSE remaining

BudgetAfter(price_eur, remaining, lookup) ==
    IF FallbackAttempted(price_eur, remaining) THEN remaining - 1 ELSE remaining

\* lines 440-443: the page's rows whose reference is not yet in the batch
\* every row of the page kept, seen or not
Unseen_All(rs, S) == rs

RECURSIVE Unseen(_, _)
Unseen(rs, S) ==
    IF rs = <<>> THEN <<>>
    ELSE IF rs[1].reference \in S THEN Unseen(Tail(rs), S)
    ELSE <<rs[1]>> \o Unseen(Tail(rs), S \cup {rs[1].reference})

\* the address and the name under which a listing page shows product ref
ProductUrl(ref) == "/fiche/" \o ref \o ".html"

ProductName(ref) == Names[Rank(Refs, ref)]

RunInit ==
    /\ PriceIdle
    /\ excel = NoFile
    /\ clock = 0
    /\ last_rows = <<>>
    /\ op = "init"
    /\ found_status = "absent"
    /\ RunIdle

\* run_once, lines 526-530, and scrape_all_pages up to its loop; at most
\* launches runs are started
StartRun(launches) ==
    /\ pc = "idle"
    /\ clock < launches
    /\ clock' = clock + 1
    /\ excel' = ensure_excel_exists(excel)
    /\ state' = load_state(state_file)
    /\ all_rows' = <<>>
    /\ seen' = {}
    /\ fallback_budget' = MAX_FALLBACK_PRODUCT_PAGES
    /\ page' = 1
    /\ pc' = "page"
    /\ op' = "start"
    /\ UNCHANGED <<priceVars, last_rows, found_status, state_file, link,
                   page_rows, seen_refs, item, fetches, fetched, unresolved, history>>

\* lines 435-437: the rows scrape_all_pages keeps of a page whose scraping
\* raised, rows being what scrape_listing_page had gathered until then
RowsOnError_Partial(rows) == rows

RowsOnError(rows) == <<>>

\* scrape_listing_page raises, lines 435-437, at once (get_soup fails) or
\* while it iterates the links (extract_main_price_from_text raises on an
\* amount too long for int or float): the page gives no row; what the
\* fallbacks of the page took from the budget stays taken; pages is the
\* length of PAGES_LISTE
PageRaises(pages) ==
    /\ pc \in {"page", "links"}
    /\ page <= pages
    /\ LET kept == RowsOnError(IF pc = "links" THEN page_rows ELSE <<>>)
       IN  /\ all_rows' = all_rows \o Unseen(kept, seen)
           /\ seen' = seen \cup {kept[i].reference : i \in 1..Len(kept)}
    /\ page' = page + 1
    /\ pc' = "page"
    /\ op' = "page_raises"
    /\ UNCHANGED <<priceVars, excel, clock, last_rows, found_status,
                   state_file, state, link, fallback_budget, page_rows,
                   seen_refs, item, fetches, fetched, unresolved, history>>

\* scrape_listing_page, lines 356-360: the page is fetched
PageLoaded(pages) ==
    /\ pc = "page"
    /\ page <= pages
    /\ page_rows' = <<>>
    /\ seen_refs' = {}
    /\ link' = 0
    /\ pc' = "links"
    /\ op' = "page_loaded"
    /\ UNCHANGED <<priceVars, excel, clock, last_rows, found_status,
                   state_file, state, page, fallback_budget, all_rows, seen,
                   item, fetches, fetched, unresolved, history>>

\* one link that is no product of interest: lines 365-366, 381-385
LinkSkipped ==
    /\ pc = "links"
    /\ link < MaxLinks
    /\ link' = link + 1
    /\ op' = "link_skipped"
    /\ UNCHANGED <<priceVars, excel, clock, last_rows, found_status,
                   state_file, pc, state, page, fallback_budget, page_rows,
                   seen_refs, all_rows, seen, item, fetches, fetched, unresolved,
                   history>>

\* one link to a product already seen on this page: lines 369-370
LinkRepeated ==
    /\ pc = "links"
    /\ link < MaxLinks
    /\ seen_refs # {}
    /\ link' = link + 1
    /\ op' = "link_repeated"
    /\ UNCHANGED <<priceVars, excel, clock, last_rows, found_status,
                   state_file, pc, state, page, fallback_budget, page_rows,
                   seen_refs, all_rows, seen, item, fetches, fetched, unresolved,
                   history>>

\* one link to a product of interest, lines 387-417: price_eur is what the
\* listing gave, lookup is what the product page would give
ScrapeLink ==
    /\ pc = "links"
    /\ link < MaxLinks
    /\ \E ref \in Range(Refs) \ seen_refs,
          price_eur \in Range(Prices) \cup {None}, lookup \in Lookups :
          LET attempted == FallbackAttempted(price_eur, fallback_budget)
              final == FallbackPrice(price_eur, fallback_budget, lookup)
          IN  /\ attempted \/ lookup = NoLookup
              /\ page_rows' = Append(page_rows,
                                [reference |-> ref, nom |-> ProductName(ref),
                                 url_produit |-> ProductUrl(ref),
                                 prix_eur |-> final])
              /\ fallback_budget' = BudgetAfter(price_eur, fallback_budget, lookup)
              /\ seen_refs' = seen_refs \cup {ref}
              /\ fetches' = IF attempted THEN fetches + 1 ELSE fetches
              /\ fetched' = IF attempted THEN fetched \cup {ref} ELSE fetched
              /\ unresolved' = IF price_eur = None THEN unresolved + 1
                               ELSE unresolved
              /\ item' = [reference |-> ref, listing |-> price_eur,
                          fallback |-> IF ~attempted THEN "no"
                                       ELSE IF lookup.raised THEN "raised"
                                       ELSE IF lookup.price = None THEN "no_price"
                                       ELSE "price",
                          prix_eur |-> final]
    /\ link' = link + 1
    /\ op' = "scrape_link"
    /\ UNCHANGED <<priceVars, excel, clock, last_rows, found_status,
                   state_file, pc, state, page, all_rows, seen, history>>

\* the page's links are exhausted: scrape_listing_page returns, and
\* scrape_all_pages keeps the rows of unseen references, lines 439-445
PageDone ==
    /\ pc = "links"
    /\ all_rows' = all_rows \o Unseen(page_rows, seen)
    /\ seen' = seen \cup {page_rows[i].reference : i \in 1..Len(page_rows)}
    /\ page' = page + 1
    /\ pc' = "page"
    /\ op' = "page_done"
    /\ UNCHANGED <<priceVars, excel, clock, last_rows, found_status,
                   state_file, state, link, fallback_budget, page_rows,
                   seen_refs, item, fetches, fetched, unresolved, history>>

\* the process ends: its locals are gone
ProcessExit ==
    /\ pc' = "idle"
    /\ state' = 0
    /\ page' = 0
    /\ link' = 0
    /\ fallback_budget' = 0
    /\ page_rows' = <<>>
    /\ seen_refs' = {}
    /\ all_rows' = <<>>
    /\ seen' = {}
    /\ item' = NoItem
    /\ fetches' = 0
    /\ fetched' = {}
    /\ unresolved' = 0

\* scrape_all_pages returns no row, lines 534-545: the counter is
\* incremented and saved, and the run returns
EmptyRun(pages) ==
    /\ pc = "page"
    /\ page > pages
    /\ SortBatch(all_rows) = <<>>
    /\ ~Trips(EmptyRuns(state))
    /\ state_file' = save_state(EmptyRuns(state))
    /\ history' = Append(history, [empty |-> TRUE, raised |-> FALSE])
    /\ last_rows' = <<>>
    /\ op' = "empty_run"
    /\ ProcessExit
    /\ UNCHANGED <<priceVars, excel, clock, found_status>>

\* scrape_all_pages returns no row and the saved counter reaches
\* MAX_EMPTY_RUNS, lines 540-544: the run raises RuntimeError
EmptyRunRaises(pages) ==
    /\ pc = "page"
    /\ page > pages
    /\ SortBatch(all_rows) = <<>>
    /\ Trips(EmptyRuns(state))
    /\ state_file' = save_state(EmptyRuns(state))
    /\ history' = Append(history, [empty |-> TRUE, raised |-> TRUE])
    /\ last_rows' = <<>>
    /\ op' = "empty_run_raises"
    /\ ProcessExit
    /\ UNCHANGED <<priceVars, excel, clock, found_status>>

\* scrape_all_pages returns rows, lines 547-556: the counter is reset and
\* saved, and the ledger is updated
NonEmptyRun(pages) ==
    /\ pc = "page"
    /\ page > pages
    /\ SortBatch(all_rows) # <<>>
    /\ state_file' = save_state(ResetRuns(state))
    /\ excel' = update_excel_history(excel, SortBatch(all_rows), clock)
    /\ found_status' = excel.status
    /\ history' = Append(history, [empty |-> FALSE, raised |-> FALSE])
    /\ last_rows' = SortBatch(all_rows)
    /\ op' = "merge"
    /\ ProcessExit
    /\ UNCHANGED <<priceVars, clock>>

\* Spec: up to MaxRuns launches over a catalog of one listing page
Next ==
    \/ StartRun(MaxRuns)
    \/ PageRaises(1)
    \/ PageLoaded(1)
    \/ LinkSkipped
    \/ LinkRepeated
    \/ ScrapeLink
    \/ PageDone
    \/ EmptyRun(1)
    \/ EmptyRunRaises(1)
    \/ NonEmptyRun(1)

Spec == RunInit /\ [][Next]_vars

(***************************************************************************)
(* SpecScrape: one launch of run_once over the listing pages PAGES_LISTE,  *)
(* from any monitoring state and ledger that earlier runs can leave        *)
(***************************************************************************)
\* PAGES_LISTE holds 8 addresses at lines 54-63
PAGES_LISTE == <<"c4416/", "c4416/page2/">>

\* a ledger left by one earlier run
OneRunLedger ==
    update_excel_history(NoFile,
        <<[reference |-> Refs[1], nom |-> ProductName(Refs[1]),
           url_produit |-> ProductUrl(Refs[1]), prix_eur |-> Prices[1]]>>, 0)

ScrapeInit ==
    /\ PriceIdle
    /\ excel \in {NoFile, OneRunLedger, CorruptFile}
    /\ clock = 0
    /\ last_rows = <<>>
    /\ op = "init"
    /\ found_status = "absent"
    /\ state_file \in {NoState} \cup {save_state(n) : n \in 0..MAX_EMPTY_RUNS}
    /\ pc = "idle"
    /\ history = <<>>
    /\ Scratch

ScrapeNext ==
    \/ StartRun(1)
    \/ PageRaises(Len(PAGES_LISTE))
    \/ PageLoaded(Len(PAGES_LISTE))
    \/ LinkSkipped
    \/ LinkRepeated
    \/ ScrapeLink
    \/ PageDone
    \/ EmptyRun(Len(PAGES_LISTE))
    \/ EmptyRunRaises(Len(PAGES_LISTE))
    \/ NonEmptyRun(Len(PAGES_LISTE))

SpecScrape == ScrapeInit /\ [][ScrapeNext]_vars

(***************************************************************************)
(* Reading a ledger file                                                   *)
(***************************************************************************)
PriceCols(e) == SelectSeq(e.columns, LAMBDA c : c \notin Range(STRUCT_COLS))

RowKeys(e) == {e.rows[i]["reference"] : i \in 1..Len(e.rows)}

Cell(e, r, c) ==
    e.rows[CHOOSE i \in 1..Len(e.rows) : e.rows[i]["reference"] = r][c]

BatchKeys(rows) == {rows[i].reference : i \in 1..Len(rows)}

\* a step of update_excel_history
MergeStep == op' \in {"merge", "remerge"}

(***************************************************************************)
(* Claims on run_once (Spec)                                               *)
(***************************************************************************)
\* number of runs without rows in a row that end with run i of h
RECURSIVE Streak(_, _)
Streak(h, i) ==
    IF i = 0 \/ ~h[i].empty THEN 0 ELSE 1 + Streak(h, i - 1)

Last(s) == s[Len(s)]

\* C1: starting with no saved counter, a run raises the fatal error when it
\* is the third run without rows in a row, and returns normally when it is
\* the first or the second; a run with rows never raises.
C1_BreakerTrips ==
    \A i \in 1..Len(history) :
        /\ Streak(history, i) \in {1, 2} => ~history[i].raised
        /\ Streak(history, i) = MAX_EMPTY_RUNS => history[i].raised
        /\ Streak(history, i) = 0 => ~history[i].raised

\* C1 witness: a run with rows, then three runs without: only the last one
\* raised.
C1_Witness ==
    /\ Len(history) = 4
    /\ ~history[1].empty
    /\ history[2].empty /\ ~history[2].raised
    /\ history[3].empty /\ ~history[3].raised
    /\ history[4].empty /\ history[4].raised

\* C2: whatever the saved counter, a run with rows saves the counter 0 and
\* does not raise; the run without rows that follows it saves the counter 1
\* and returns normally.
C2_CounterReset ==
    [][/\ op' = "merge" =>
            /\ state_file'.exists
            /\ state_file'.empty_runs = 0
            /\ ~Last(history').raised
       /\ (history # <<>> /\ ~Last(history).empty /\ Len(history') > Len(history)
             /\ Last(history').empty) =>
            /\ state_file'.empty_runs = 1
            /\ ~Last(history').raised]_vars

\* C2 witness: the counter had reached the threshold (the third run raised),
\* then a run with rows reset it, and the run without rows that followed
\* saved the counter 1.
C2_Witness ==
    /\ Len(history) = 5
    /\ history[3].raised
    /\ ~history[4].empty
    /\ history[5].empty /\ ~history[5].raised
    /\ state_file.empty_runs = 1

\* C16: a run reads the saved counter when it starts and at no other time;
\* the state file is written by the step that ends the run and by no
\* other, with the counter read at the start incremented (no row) or 0
\* (rows); a run that raises has saved the incremented counter, and the run
\* after it starts from that value.
C16_WriteOrdering ==
    /\ [][op' = "start" =>
            /\ state' = (IF state_file.exists THEN state_file.empty_runs ELSE 0)
            /\ state_file' = state_file]_vars
    /\ [][pc # "idle" /\ pc' # "idle" =>
            state' = state /\ state_file' = state_file]_vars
    /\ [][state_file' # state_file => Len(history') = Len(history) + 1]_vars
    /\ [][Len(history') = Len(history) + 1 =>
            /\ pc # "idle" /\ pc' = "idle"
            /\ state_file'.exists
            /\ state_file'.empty_runs =
                  (IF Last(history').empty THEN state + 1 ELSE 0)
            /\ Last(history').raised =>
                  state_file'.empty_runs >= MAX_EMPTY_RUNS]_vars
    /\ [](pc # "idle" /\ history # <<>> /\ Last(history).raised =>
            state = state_file.empty_runs /\ state >= MAX_EMPTY_RUNS)

\* C16 witness: the run after the one that tripped the breaker has started
\* and has read the counter the tripping run saved.
C16_Witness ==
    /\ op = "start"
    /\ Len(history) = MAX_EMPTY_RUNS
    /\ Last(history).raised
    /\ state_file = [exists |-> TRUE, empty_runs |-> MAX_EMPTY_RUNS]
    /\ state = MAX_EMPTY_RUNS

\* C17: a run without rows that follows a run that raised raises too; the
\* saved counter is the length of the current streak of runs without rows,
\* however long.
C17_StaysTripped ==
    /\ \A i \in 1..Len(history) - 1 :
          history[i].raised /\ history[i + 1].empty => history[i + 1].raised
    /\ history # <<>> =>
          state_file.empty_runs = Streak(history, Len(history))

\* C17 witness: five runs without rows in a row; the third, the fourth and
\* the fifth raised, and the saved counter is 5.
C17_Witness ==
    /\ Len(history) = MAX_EMPTY_RUNS + 2
    /\ \A i \in 1..Len(history) :
          history[i].empty /\ (history[i].raised <=> i >= MAX_EMPTY_RUNS)
    /\ state_file.empty_runs = MAX_EMPTY_RUNS + 2

(***************************************************************************)
(* Claims on scrape_listing_page and scrape_all_pages (SpecScrape)         *)
(***************************************************************************)
Min(a, b) == IF a <= b THEN a ELSE b

IsPrefix(a, b) == Len(a) <= Len(b) /\ SubSeq(b, 1, Len(a)) = a

\* C3: at every point of a run, the product pages fetched so far number
\* min(B, N), B the budget and N the products handled so far whose listing
\* gave no price (a product is counted on each page that lists it); so the
\* first min(B, N) of them are fetched, and every later one is recorded with
\* no price and without a fetch.
C3_FallbackBudgetExact ==
    /\ [](pc # "idle" => fetches = Min(MAX_FALLBACK_PRODUCT_PAGES, unresolved))
    /\ [][unresolved' = unresolved + 1 =>
            IF unresolved < MAX_FALLBACK_PRODUCT_PAGES
            THEN fetches' = fetches + 1 /\ item'.fallback # "no"
            ELSE /\ fetches' = fetches
                 /\ item'.fallback = "no"
                 /\ Last(page_rows').reference = item'.reference
                 /\ Last(page_rows').prix_eur = None]_vars

\* C3 witness: more products lacked a listing price than the budget allows;
\* the budget's worth of pages was fetched and the latest product was
\* recorded without a price and without a fetch.
C3_Witness ==
    /\ pc = "links"
    /\ unresolved > MAX_FALLBACK_PRODUCT_PAGES
    /\ fetches = MAX_FALLBACK_PRODUCT_PAGES
    /\ item.listing = None
    /\ item.fallback = "no"
    /\ Last(page_rows).prix_eur = None

\* C4: the remaining budget stays between 0 and the configured maximum; a
\* fetch happens only with a positive budget and takes exactly one unit from
\* it, whether the lookup returns a price, returns none or raises; the
\* budget changes in no other way during a run.
C4_BudgetAccounting ==
    /\ [](0 <= fallback_budget /\ fallback_budget <= MAX_FALLBACK_PRODUCT_PAGES)
    /\ [][/\ fetches' = fetches + 1 =>
               fallback_budget > 0 /\ fallback_budget' = fallback_budget - 1
          /\ (op' = "scrape_link" /\ item'.fallback \in {"price", "no_price", "raised"}) =>
               fetches' = fetches + 1 /\ fallback_budget' = fallback_budget - 1
          /\ (op' = "scrape_link" /\ item'.listing = None /\ fallback_budget = 0) =>
               fetches' = fetches /\ item'.fallback = "no"
          /\ (pc # "idle" /\ pc' # "idle") =>
               /\ fallback_budget' <= fallback_budget
               /\ fallback_budget' # fallback_budget => fetches' = fetches + 1]_vars

\* C4 witness: the lookup of the latest product raised and took the last
\* unit of the budget.
C4_Witness ==
    /\ pc = "links"
    /\ item.fallback = "raised"
    /\ fallback_budget = 0
    /\ fetches = MAX_FALLBACK_PRODUCT_PAGES

\* the row scrape_listing_page appends for product ref with price v
Row(ref, v) ==
    [reference |-> ref, nom |-> ProductName(ref),
     url_produit |-> ProductUrl(ref), prix_eur |-> v]

C15_PageContainment ==
    /\ [][op' = "page_raises" =>
            /\ all_rows' = all_rows
            /\ seen' = seen
            /\ page' = page + 1
            /\ pc' = "page"
            /\ history' = history]_vars
    /\ [][pc # "idle" /\ pc' # "idle" /\ page' # page =>
            page' = page + 1]_vars
    /\ [][Len(history') > Len(history) =>
            /\ page = Len(PAGES_LISTE) + 1
            /\ BatchKeys(last_rows') = BatchKeys(all_rows)
            /\ Last(history').raised =>
                  all_rows = <<>> /\ Trips(EmptyRuns(state))]_vars

\* C15 witness: the first page gave a row; the scraping of the second page
\* raised after it had handled another product, which is not in the batch;
\* the batch still holds the first page's row.
C15_Witness ==
    /\ op = "page_raises"
    /\ page = Len(PAGES_LISTE) + 1
    /\ Len(all_rows) = 1
    /\ item # NoItem
    /\ item.reference \notin BatchKeys(all_rows)
    /\ item.reference \notin seen

\* C18: a run that ends without rows leaves the ledger file as it found
\* it: its start creates the file, with the header row and nothing else,
\* when there is none, and changes no file that exists, readable or not; no
\* step of the scraping and neither ending of a run without rows changes
\* the file.
C18_EmptyRunFrame ==
    /\ [][op' = "start" =>
            \/ excel.status # "absent" /\ excel' = excel
            \/ /\ excel.status = "absent"
               /\ excel' = [status |-> "ok", columns |-> STRUCT_COLS,
                            rows |-> <<>>]]_vars
    /\ [][pc # "idle" /\ pc' # "idle" => excel' = excel]_vars
    /\ [][Len(history') > Len(history) /\ Last(history').empty =>
            /\ excel' = excel
            /\ op' \in {"empty_run", "empty_run_raises"}]_vars
    /\ [](history # <<>> /\ Last(history).empty =>
            /\ PriceCols(excel) \in {<<>>, PriceCols(OneRunLedger)}
            /\ excel \in {OneRunLedger, CorruptFile,
                          [status |-> "ok", columns |-> STRUCT_COLS,
                           rows |-> <<>>]})

\* C18 witness: a run without rows raised the fatal error, and the ledger
\* an earlier run had left still holds its row and its one price column.
C18_Witness ==
    /\ op = "empty_run_raises"
    /\ excel = OneRunLedger
    /\ Len(excel.rows) = 1
    /\ Len(PriceCols(excel)) = 1

\* C19: in one run no product page is fetched twice: a fetch is made only
\* for a reference this run has not fetched yet, on whichever pages and
\* however often the reference is listed.
C19_OneFallbackPerProduct ==
    [][fetches' = fetches + 1 => item'.reference \notin fetched]_vars

\* whether the references of rows are pairwise different
UniqueKeys(rows) == Cardinality(BatchKeys(rows)) = Len(rows)

\* C20: the rows of a page and the rows of the batch name each reference at
\* most once; a repeated link of a page adds nothing; when a page is done
\* the batch keeps every row it had and takes the page's row of each
\* reference it did not hold; so the batch handed to the ledger and the
\* ledger after the merge hold one row per reference.
C20_BatchKeysUnique ==
    /\ [](/\ UniqueKeys(page_rows)
          /\ UniqueKeys(all_rows)
          /\ BatchKeys(all_rows) = seen
          /\ UniqueKeys(last_rows)
          /\ excel.status = "ok" => Cardinality(RowKeys(excel)) = Len(excel.rows))
    /\ [][op' = "link_repeated" => page_rows' = page_rows]_vars
    /\ [][op' = "page_done" =>
            /\ IsPrefix(all_rows, all_rows')
            /\ BatchKeys(all_rows') = BatchKeys(all_rows) \cup BatchKeys(page_rows)
            /\ \A i \in 1..Len(page_rows) :
                  page_rows[i].reference \notin seen =>
                     \E j \in 1..Len(all_rows') : all_rows'[j] = page_rows[i]]_vars
    /\ [][op' = "merge" =>
            /\ BatchKeys(last_rows') = BatchKeys(all_rows)
            /\ \A i \in 1..Len(all_rows) :
                  \E j \in 1..Len(last_rows') : last_rows'[j] = all_rows[i]
            /\ BatchKeys(last_rows') \subseteq RowKeys(excel')]_vars

\* C20 witness: both pages listed the same reference, with a price on the
\* first page and none on the second; the second page is done and the batch
\* holds the reference once, with the first page's price.
C20_Witness ==
    /\ op = "page_done"
    /\ page = Len(PAGES_LISTE) + 1
    /\ page_rows = <<Row(Refs[2], None)>>
    /\ all_rows = <<Row(Refs[2], Prices[1])>>
    /\ seen = {Refs[2]}

(***************************************************************************)
(* Claims on update_excel_history (SpecMerge)                              *)
(***************************************************************************)
\* C5: a merge into a readable ledger removes no row key and no price
\* column; every cell of an earlier price column, other than the column named
\* by the current timestamp, keeps its value; the earlier price columns keep
\* their order and the current timestamp's column comes after them.
C5_AppendOnly ==
    [][MergeStep /\ excel.status # "corrupt" =>
         /\ RowKeys(excel) \subseteq RowKeys(excel')
         /\ Range(PriceCols(excel)) \subseteq Range(PriceCols(excel'))
         /\ \A c \in Range(PriceCols(excel)) \ {Strftime(clock)} :
              \A r \in RowKeys(excel) : Cell(excel', r, c) = Cell(excel, r, c)
         /\ IsPrefix(PriceCols(excel), PriceCols(excel'))
         /\ \A i \in 1..Len(PriceCols(excel')) :
              PriceCols(excel')[i] = Strftime(clock) /\ last_rows' # <<>>
                 => i = Len(PriceCols(excel'))]_vars

\* C5 witness: after a merge the ledger holds three price columns, and a row
\* the batch did not name still holds its price in the first of them.
C5_Witness ==
    /\ op = "merge"
    /\ last_rows # <<>>
    /\ Len(PriceCols(excel)) = 3
    /\ \E r \in RowKeys(excel) \ BatchKeys(last_rows) :
         Cell(excel, r, PriceCols(excel)[1]) # None

\* C6: after a merge of a batch at timestamp T, the cell in column T is the
\* observation's price for every id of the batch, missing for every other
\* id of the ledger, and an id the ledger did not hold before is missing in
\* every other price column.
C6_NewColumn ==
    [][MergeStep /\ last_rows' # <<>> =>
         LET T == Strftime(clock)
             known == IF excel.status = "ok" THEN RowKeys(excel) ELSE {}
         IN  /\ T \in Range(PriceCols(excel'))
             /\ \A i \in 1..Len(last_rows') :
                  /\ last_rows'[i].reference \in RowKeys(excel')
                  /\ Cell(excel', last_rows'[i].reference, T) = last_rows'[i].prix_eur
             /\ \A r \in RowKeys(excel') \ BatchKeys(last_rows') :
                  Cell(excel', r, T) = None
             /\ \A r \in BatchKeys(last_rows') \ known :
                  \A c \in Range(PriceCols(excel')) \ {T} :
                     Cell(excel', r, c) = None]_vars

\* C6 witness: a row absent from the batch holds a price in an earlier
\* column and nothing in the new one, and an id new in the batch holds its
\* price in the new column and nothing in the earlier one.
C6_Witness ==
    /\ op = "merge"
    /\ Len(PriceCols(excel)) >= 2
    /\ \E r \in RowKeys(excel) \ BatchKeys(last_rows) :
         /\ Cell(excel, r, PriceCols(excel)[1]) # None
         /\ Cell(excel, r, Strftime(clock)) = None
    /\ \E r \in BatchKeys(last_rows) :
         /\ Cell(excel, r, PriceCols(excel)[1]) = None
         /\ Cell(excel, r, Strftime(clock)) # None

\* C7: merging the same non-empty batch a second time at the same timestamp
\* leaves the ledger as the first merge left it, with one column named by
\* the timestamp and one row per id.
C7_Idempotent ==
    [][op' = "remerge" /\ last_rows' # <<>> =>
         /\ excel' = excel
         /\ Cardinality({i \in 1..Len(excel'.columns) :
                           excel'.columns[i] = Strftime(clock)}) = 1
         /\ Cardinality(RowKeys(excel')) = Len(excel'.rows)]_vars

\* C7 witness: the same batch was merged twice in a row into a ledger that
\* also holds an earlier column and a row the batch does not name.
C7_Witness ==
    /\ op = "remerge"
    /\ last_rows # <<>>
    /\ Len(PriceCols(excel)) >= 2
    /\ RowKeys(excel) \ BatchKeys(last_rows) # {}

\* C8: when the ledger file is absent, holds no row or cannot be read, a
\* merge of a non-empty batch at timestamp T succeeds and leaves one row per
\* batch id, the two metadata columns after the key, and the single price
\* column T holding the batch's prices.
C8_Bootstrap ==
    [][MergeStep /\ last_rows' # <<>>
         /\ (excel.status \in {"absent", "corrupt"} \/ excel.rows = <<>>) =>
         /\ excel'.status = "ok"
         /\ excel'.columns = STRUCT_COLS \o <<Strftime(clock)>>
         /\ Len(excel'.rows) = Len(last_rows')
         /\ RowKeys(excel') = BatchKeys(last_rows')
         /\ \A i \in 1..Len(last_rows') :
              LET r == last_rows'[i].reference
              IN  /\ Cell(excel', r, Strftime(clock)) = last_rows'[i].prix_eur
                  /\ Cell(excel', r, "nom") = last_rows'[i].nom
                  /\ Cell(excel', r, "url_produit") = last_rows'[i].url_produit]_vars

\* C8 witness: a merge of two observations found the file unreadable.
C8_Witness ==
    /\ op = "merge"
    /\ found_status = "corrupt"
    /\ Len(last_rows) = 2
    /\ excel.status = "ok"

\* C8, absent file: a merge of a non-empty batch found no ledger file.
C8_WitnessAbsent ==
    /\ op = "merge"
    /\ found_status = "absent"
    /\ last_rows # <<>>

\* C12: after a merge, every id of the batch carries the batch's name and
\* address in the ledger, whatever the ledger held for it before; every
\* other id of the ledger keeps the name and address it had; and no row is
\* left without a name or an address.
C12_Metadata ==
    [][MergeStep /\ last_rows' # <<>> =>
         /\ \A i \in 1..Len(last_rows') :
              LET r == last_rows'[i].reference
              IN  /\ Cell(excel', r, "nom") = last_rows'[i].nom
                  /\ Cell(excel', r, "url_produit") = last_rows'[i].url_produit
         /\ \A r \in RowKeys(excel') \ BatchKeys(last_rows') :
              /\ excel.status = "ok"
              /\ r \in RowKeys(excel)
              /\ Cell(excel', r, "nom") = Cell(excel, r, "nom")
              /\ Cell(excel', r, "url_produit") = Cell(excel, r, "url_produit")
         /\ \A r \in RowKeys(excel') :
              /\ Cell(excel', r, "nom") # NA
              /\ Cell(excel', r, "url_produit") # NA]_vars

\* C12 witness: after a merge, one id of the batch was already in the
\* ledger (it holds a price in an earlier column) and carries the batch's
\* name and the second spelling of its address; another id, absent from the
\* batch, still carries a name.
C12_Witness ==
    /\ op = "merge"
    /\ Len(PriceCols(excel)) >= 2
    /\ \E i \in 1..Len(last_rows) :
         LET r == last_rows[i].reference
         IN  /\ Cell(excel, r, PriceCols(excel)[1]) # None
             /\ Cell(excel, r, "nom") = last_rows[i].nom
             /\ Cell(excel, r, "url_produit") = "/fiche/" \o r \o ".HTML"
    /\ \E r \in RowKeys(excel) \ BatchKeys(last_rows) :
         Cell(excel, r, "nom") # NA

(***************************************************************************)
(* Claims on extract_main_price_from_text (SpecPrice)                      *)
(***************************************************************************)
\* whether index j of t holds the x of an installment "<N> x": a digit
\* comes before it, next to it or one blank away
TimesAt(t, j) ==
    /\ j >= 2
    /\ t[j] = "x"
    /\ \/ IsDigit(t[j - 1])
       \/ j >= 3 /\ IsSpace(t[j - 1]) /\ IsDigit(t[j - 2])

\* whether the amount that starts at index i of t stands in installment
\* context, "<N> x <amount>"
InstallmentContext(t, i) ==
    \/ TimesAt(t, i - 1)
    \/ i >= 2 /\ IsSpace(t[i - 1]) /\ TimesAt(t, i - 2)

\* C9: the price returned is unknown or is an amount of the text that does
\* not stand in installment context "<N> x <amount>"; a text whose only
\* amount is an installment amount gives unknown.
C9_InstallmentExcluded ==
    extracted /\ price # None =>
        LET t == _normalize_price_text(text)
            found == FindIter(t, 1)
        IN  \E i \in 1..Len(found) :
                found[i].val = price /\ ~InstallmentContext(t, found[i].start)

\* C10: the price returned is unknown or lies in the band [50, 10000].
C10_PlausibleBand ==
    extracted => price = None \/ InBand(price)

\* the positions of the scanned amounts of t that lie in the band
BandPositions(t) == {i \in 1..Len(Amounts(t)) : InBand(Amounts(t)[i])}

\* the n-th position of P in ascending order
NthPosition(P, n) ==
    CHOOSE i \in P : Cardinality({j \in P : j < i}) = n - 1

\* C11: when two or more scanned amounts lie in the band, the price returned
\* is the second of them in document order, whichever is larger and however
\* many follow; when exactly one does, the price returned is that one.
C11_PromoPair ==
    extracted =>
        LET P == BandPositions(text)
        IN  /\ Cardinality(P) >= 2 => price = Amounts(text)[NthPosition(P, 2)]
            /\ Cardinality(P) = 1 => price = Amounts(text)[NthPosition(P, 1)]

\* C11 witness: three amounts in the band, the first larger than the second
\* and the third different from it; the second was returned.
C11_Witness ==
    /\ extracted
    /\ Cardinality(BandPositions(text)) = 3
    /\ LET P == BandPositions(text)
           a == Amounts(text)
       IN  /\ a[NthPosition(P, 1)] > a[NthPosition(P, 2)]
           /\ a[NthPosition(P, 3)] # a[NthPosition(P, 2)]
           /\ price = a[NthPosition(P, 2)]

\* greatest amount of a non-empty sequence
RECURSIVE MaxOf(_)
MaxOf(ms) ==
    IF Len(ms) = 1 THEN ms[1]
    ELSE IF ms[1] >= MaxOf(Tail(ms)) THEN ms[1] ELSE MaxOf(Tail(ms))

\* C13: when the text holds scanned amounts and none lies in the band, the
\* price returned is the largest of the scanned amounts, whatever their
\* order in the text.
C13_LargestRaw ==
    extracted /\ Amounts(text) # <<>> /\ BandPositions(text) = {} =>
        price = MaxOf(Amounts(text))

====
